---- MODULE Spec2Model ----
(***************************************************************************)
(* A model of crates/lunatic-distributed/src/quic/quin.rs: the chunk       *)
(* reassembler of a QUIC stream, the client's connect-with-retry loops,    *)
(* the server's accept loops and the length-prefixed send/receive pair.    *)
(*                                                                         *)
(* The specifications of the module:                                       *)
(*   Spec          the reassembler of one stream (read_next_stream_message)*)
(*   SpecChunkIds  two reassemblers on the same chunks, chunk_ids apart    *)
(*   SpecClient    Client::try_connect and Client::connect                 *)
(*   SpecServer    handle_node_server and the handlers it spawns           *)
(*   SpecTasks     the same with two peers and several streams             *)
(*   SpecConn      one established connection of the server in detail: its *)
(*                 accept loop and the read loops of its streams           *)
(*   SpecConnFair  one established connection under fair scheduling        *)
(*   SpecSimple    SendStream::send and RecvStream::receive                *)
(*   SpecCreds     new_quic_client and new_quic_server                     *)
(* A specification leaves the variables of the other parts at their idle   *)
(* values.                                                                 *)
(***************************************************************************)
EXTENDS Integers, Sequences, FiniteSets, TLC

VARIABLES
    peer,       \* the remote side: the writer of the stream, the server's peers
    chunks,     \* RecvCtx.chunks of the reassembled stream
    emitted,    \* the messages read_next_stream_message has returned, in order
    reader,     \* the state of the stream's read loop
    client,     \* one call of Client::try_connect or Client::connect
    server,     \* handle_node_server and the endpoint it accepts from
    conns,      \* the spawned handle_quic_connection_node tasks
    streams,    \* the spawned handle_quic_stream_node tasks
    simple,     \* one SendStream::send / RecvStream::receive exchange
    creds       \* one call of new_quic_client or new_quic_server

vars == <<peer, chunks, emitted, reader, client, server, conns, streams, simple,
          creds>>

-----------------------------------------------------------------------------
(* Bounds *)

\* longest payload a peer holds for one message_id
MaxLen == 2
\* most chunks a peer writes on the stream
MaxChunks == 4

\* largest retry argument of a call, short of u32::MAX
MaxRetry == 3

\* longest payload of a length-prefixed exchange
MaxPayload == 4
\* most bytes one packet of the transport delivers
PacketLen == 2

\* most connections the endpoint yields
MaxConns == 2
\* most streams the peer opens on one connection
MaxStreams == 2
\* most chunks the peer writes, over all streams of one connection
MaxReads == 2
\* most accept_bi errors that leave their connection open
MaxErrors == 1

\* the message_ids in flight on the stream
MessageIds == {1, 2}
\* the chunk_id values a peer writes
ChunkIds == {0, 1}

\* every byte sequence of length at most n
SeqUpTo(S, n) == UNION {[1..k -> S] : k \in 0..n}

-----------------------------------------------------------------------------
(* The chunk reassembler: read_next_stream_chunk, read_next_stream_message *)

\* DashMap::insert: the map with key k bound to v
Insert(map, k, v) == [x \in DOMAIN map \cup {k} |-> IF x = k THEN v ELSE map[x]]

\* Remove as it would be if a finished message emptied the whole map
Remove_All(map, k) == << >>

\* DashMap::remove: the map without key k
Remove(map, k) == [x \in DOMAIN map \ {k} |-> map[x]]

\* read_next_stream_chunk as it would be if a chunk whose chunk_id is not 0
\* were taken for a repetition and its payload skipped
read_next_stream_chunk_SkipRepeat(w) ==
    [message_id |-> w.message_id,
     message_size |-> w.message_size,
     data |-> IF w.chunk_id = 0 THEN SubSeq(w.data, 1, w.chunk_size) ELSE << >>]

\* The Chunk a successful read_next_stream_chunk builds from the header and
\* the payload on the wire: chunk_id is read and dropped, and the data are
\* the chunk_size bytes that follow the header.
read_next_stream_chunk(w) ==
    [message_id |-> w.message_id,
     message_size |-> w.message_size,
     data |-> SubSeq(w.data, 1, w.chunk_size)]

\* ApplyChunk as it would be if the new bytes went in front of the entry's
ApplyChunk_Prepend(map, new_chunk) ==
    IF new_chunk.message_id \in DOMAIN map
    THEN [map EXCEPT ![new_chunk.message_id] =
              <<@[1], new_chunk.data \o @[2]>>]
    ELSE Insert(map, new_chunk.message_id,
                <<new_chunk.message_size, new_chunk.data>>)

\* ApplyChunk as it would be if every chunk's message_size replaced the
\* entry's declared size
ApplyChunk_Redeclare(map, new_chunk) ==
    IF new_chunk.message_id \in DOMAIN map
    THEN [map EXCEPT ![new_chunk.message_id] =
              <<new_chunk.message_size, @[2] \o new_chunk.data>>]
    ELSE Insert(map, new_chunk.message_id,
                <<new_chunk.message_size, new_chunk.data>>)

\* The map after a chunk is applied: appended to the entry of its
\* message_id, or a new entry (message_size, data) when there is none.
ApplyChunk(map, new_chunk) ==
    IF new_chunk.message_id \in DOMAIN map
    THEN [map EXCEPT ![new_chunk.message_id] =
              <<@[1], @[2] \o new_chunk.data>>]
    ELSE Insert(map, new_chunk.message_id,
                <<new_chunk.message_size, new_chunk.data>>)

\* entry.0 == entry.1.len()
Finished(entry) == entry[1] = Len(entry[2])

\* StepMessage as it would be if a finished message were returned and its
\* entry left in the map
StepMessage_KeepEntry(map, new_chunk) ==
    LET applied == ApplyChunk(map, new_chunk)
        message_id == new_chunk.message_id
    IN  IF Finished(applied[message_id])
        THEN [chunks |-> applied,
              out |-> << <<message_id, applied[message_id][2]>> >>]
        ELSE [chunks |-> applied, out |-> << >>]

\* One iteration of the loop of read_next_stream_message on a chunk that was
\* read: the map afterwards, and the message returned (none: the loop
\* continues with the next chunk).
StepMessage(map, new_chunk) ==
    LET applied == ApplyChunk(map, new_chunk)
        message_id == new_chunk.message_id
    IN  IF Finished(applied[message_id])
        THEN [chunks |-> Remove(applied, message_id),
              out |-> << <<message_id, applied[message_id][2]>> >>]
        ELSE [chunks |-> applied, out |-> << >>]

-----------------------------------------------------------------------------
(* Spec: one stream's read loop fed by a remote peer                        *)

\* the message_size values a peer writes into a chunk header
Sizes == 0..MaxLen

\* The payload of length len a peer holds for message_id m.  The
\* reassembler copies bytes and never reads them, so every byte is given a
\* value of its own (16 * m + position): a byte that is lost, repeated,
\* moved, or taken from the other message shows.
PayloadOf(m, len) == [i \in 1..len |-> 16 * m + i]

\* The peer holds payload[m] for each message_id and writes it as chunks: it
\* has written the first sent[m] bytes in nchunks[m] chunks, and honest[m]
\* says every header so far declared message_size = Len(payload[m]).  Every
\* sequence of at most MaxChunks chunks carrying at most MaxLen bytes per
\* message_id is written by some such peer.  interleaved records that a
\* chunk of one message was read while the other message was incomplete.
PeerInit ==
    {[payload |-> [m \in MessageIds |-> PayloadOf(m, len[m])],
      sent |-> [m \in MessageIds |-> 0],
      nchunks |-> [m \in MessageIds |-> 0],
      written |-> 0,
      honest |-> [m \in MessageIds |-> TRUE],
      interleaved |-> FALSE] :
        len \in [MessageIds -> 0..MaxLen]}

\* the idle values of the other parts' variables
ClientIdle == [pc |-> "idle"]
PeerIdle == [pc |-> "idle"]
ServerIdle == [pc |-> "idle"]
SimpleIdle == [pc |-> "idle"]
CredsIdle == [pc |-> "idle"]

Init ==
    /\ peer \in PeerInit
    /\ chunks = << >>
    /\ emitted = << >>
    /\ reader = "reading"
    /\ client = ClientIdle
    /\ server = ServerIdle
    /\ conns = << >>
    /\ streams = << >>
    /\ simple = SimpleIdle
    /\ creds = CredsIdle

\* The header and payload the peer writes next for message_id m: the next
\* n bytes of its payload under a header declaring message_size ms.
WireChunk(m, n, ms, cid) ==
    [message_id |-> m, message_size |-> ms, chunk_id |-> cid, chunk_size |-> n,
     data |-> SubSeq(peer.payload[m], peer.sent[m] + 1, peer.sent[m] + n)]

\* One iteration of read_next_stream_message: a chunk is read whole and
\* applied; a finished message is returned to the read loop of the stream.
ReadChunk(m, n, ms, cid) ==
    /\ reader = "reading"
    /\ peer.written < MaxChunks
    /\ n <= Len(peer.payload[m]) - peer.sent[m]
    /\ LET step == StepMessage(chunks, read_next_stream_chunk(WireChunk(m, n, ms, cid)))
       IN  /\ chunks' = step.chunks
           /\ emitted' = emitted \o step.out
    /\ peer' = [peer EXCEPT !.sent[m] = @ + n,
                            !.nchunks[m] = @ + 1,
                            !.written = @ + 1,
                            !.interleaved = @ \/ DOMAIN chunks \ {m} # {},
                            !.honest[m] = @ /\ ms = Len(peer.payload[m])]
    /\ UNCHANGED <<reader, client, server, conns, streams, simple, creds>>

\* read_next_stream_chunk fails (the stream ends or is reset inside a header
\* or a payload): `?` returns the error and the read loop of the stream ends.
ReadFail ==
    /\ reader = "reading"
    /\ reader' = "closed"
    /\ UNCHANGED <<peer, chunks, emitted, client, server, conns, streams, simple, creds>>

Next ==
    \/ \E m \in MessageIds, n \in 0..MaxLen, ms \in Sizes, cid \in ChunkIds :
           ReadChunk(m, n, ms, cid)
    \/ ReadFail

Spec == Init /\ [][Next]_vars

-----------------------------------------------------------------------------
(* SpecChunkIds: two read loops fed the same chunks in the same order, with *)
(* chunk_id fields of their own                                             *)

\* The RecvCtx and the returned messages of one of the two runs
NewRun == [chunks |-> << >>, emitted |-> << >>]

\* Both runs start empty.  The peer has written no chunk yet; differ records
\* that a header's chunk_id was not the same in the two runs, so that in one
\* of them at least it was not the chunk's position in its message.
InitChunkIds ==
    /\ streams = <<NewRun, NewRun>>
    /\ peer = [written |-> 0, differ |-> FALSE]
    /\ reader = "reading"
    /\ chunks = << >>
    /\ emitted = << >>
    /\ client = ClientIdle
    /\ server = ServerIdle
    /\ conns = << >>
    /\ simple = SimpleIdle
    /\ creds = CredsIdle

\* the chunk_size values of the chunks compared: empty and one-byte chunks
ChunkSizes == {0, 1}

\* the n payload bytes of the next chunk on the wire, each with a value of
\* its own
NextData(n) == [i \in 1..n |-> 16 * peer.written + i]

\* one of the two runs after it has read the chunk under a header with cid
RunStep(run, m, n, ms, cid) ==
    LET w == [message_id |-> m, message_size |-> ms, chunk_id |-> cid,
              chunk_size |-> n, data |-> NextData(n)]
        step == StepMessage(run.chunks, read_next_stream_chunk(w))
    IN  [chunks |-> step.chunks, emitted |-> run.emitted \o step.out]

\* The same chunk arrives in both runs, its chunk_id field apart: one
\* iteration of read_next_stream_message in each.
ReadBoth(m, n, ms, cid1, cid2) ==
    /\ reader = "reading"
    /\ peer.written < MaxChunks
    /\ streams' = <<RunStep(streams[1], m, n, ms, cid1),
                    RunStep(streams[2], m, n, ms, cid2)>>
    /\ peer' = [written |-> peer.written + 1,
                differ |-> peer.differ \/ cid1 # cid2]
    /\ UNCHANGED <<reader, chunks, emitted, client, server, conns, simple, creds>>

\* the stream ends in both runs
EndBoth ==
    /\ reader = "reading"
    /\ reader' = "closed"
    /\ UNCHANGED <<peer, streams, chunks, emitted, client, server, conns, simple, creds>>

NextChunkIds ==
    \/ \E m \in MessageIds, n \in ChunkSizes, ms \in Sizes,
          cid1 \in ChunkIds, cid2 \in ChunkIds : ReadBoth(m, n, ms, cid1, cid2)
    \/ EndBoth

SpecChunkIds == InitChunkIds /\ [][NextChunkIds]_vars

-----------------------------------------------------------------------------
(* SpecClient: one call of Client::try_connect or Client::connect           *)

\* A u32 is kept as its two 16-bit halves <<high, low>>, so that every
\* value up to u32::MAX is exact.
Half == 2 ^ 16

\* the u32 of a small number
U32(n) == <<n \div Half, n % Half>>

\* u32::MAX
U32Max == <<Half - 1, Half - 1>>

\* a + 1 without a check: the sum modulo 2^32
WrappingInc(a) ==
    IF a[2] + 1 < Half THEN <<a[1], a[2] + 1>>
    ELSE <<(a[1] + 1) % Half, 0>>

\* a < b, a = n and n <= a for u32 a, b and a small number n
Less(a, b) == a[1] < b[1] \/ (a[1] = b[1] /\ a[2] < b[2])
IsNat(a, n) == a = U32(n)
AtMost(n, a) == a[1] > 0 \/ n <= a[2]

\* the retry arguments of the calls: the small ones and u32::MAX
Retries == {U32(n) : n \in 0..MaxRetry} \cup {U32Max}

\* RangeEnd as it would be if the loop ran over 1..=(retry + 1)
RangeEnd_OneMore(retry) ==
    IF retry = U32Max
    THEN {"panic", WrappingInc(retry)}
    ELSE {WrappingInc(WrappingInc(retry))}

\* retry + 1 in u32, the end of the range 1..(retry + 1): the sum, or on
\* overflow a panic (a build with overflow checks) or the wrapped sum (a
\* build without)
RangeEnd(retry) ==
    IF retry = U32Max
    THEN {"panic", WrappingInc(retry)}
    ELSE {WrappingInc(retry)}

\* try_num is in the range 1..end the for loop runs over
InRange(try_num, end) == Less(try_num, end)

\* the call op(addr, name, retry), before its first step
ClientCall(op, retry) ==
    [op |-> op, retry |-> retry, pc |-> "start", end |-> U32(0), try_num |-> U32(0),
     handshakes |-> 0, opens |-> 0, failed |-> 0, sleeps |-> 0,
     result |-> "none"]

InitClient ==
    /\ client \in {ClientCall(op, retry) :
                       op \in {"try_connect", "connect"}, retry \in Retries}
    /\ peer = PeerIdle
    /\ chunks = << >>
    /\ emitted = << >>
    /\ reader = "idle"
    /\ server = ServerIdle
    /\ conns = << >>
    /\ streams = << >>
    /\ simple = SimpleIdle
    /\ creds = CredsIdle

\* `1..(retry + 1)` is built: the loop starts at try_num = 1, or the
\* addition panics
EnterLoop ==
    /\ client.pc = "start"
    /\ \E end \in RangeEnd(client.retry) :
           client' = IF end = "panic"
                     THEN [client EXCEPT !.pc = "panicked"]
                     ELSE [client EXCEPT !.pc = "loop", !.end = end, !.try_num = U32(1)]
    /\ UNCHANGED <<peer, chunks, emitted, reader, server, conns, streams, simple, creds>>

\* the for loop takes its next try_num and starts the attempt
NextAttempt ==
    /\ client.pc = "loop"
    /\ InRange(client.try_num, client.end)
    /\ client' = [client EXCEPT !.pc = "handshake"]
    /\ UNCHANGED <<peer, chunks, emitted, reader, server, conns, streams, simple, creds>>

\* the range is exhausted: Err("Failed to connect to {name} at {addr}")
GiveUp ==
    /\ client.pc = "loop"
    /\ ~InRange(client.try_num, client.end)
    /\ client' = [client EXCEPT !.pc = "done", !.result = "Err"]
    /\ UNCHANGED <<peer, chunks, emitted, reader, server, conns, streams, simple, creds>>

\* self.inner.connect(addr, name)?.await: the handshake of _connect
\* (try_connect) or of connect_once (connect) succeeds or fails
Handshake(ok) ==
    /\ client.pc = "handshake"
    /\ client' =
         IF ~ok
         THEN [client EXCEPT !.handshakes = @ + 1, !.failed = @ + 1, !.pc = "sleep"]
         ELSE IF client.op = "try_connect"
         THEN [client EXCEPT !.handshakes = @ + 1, !.pc = "done", !.result = "Ok"]
         ELSE [client EXCEPT !.handshakes = @ + 1, !.pc = "open_bi"]
    /\ UNCHANGED <<peer, chunks, emitted, reader, server, conns, streams, simple, creds>>

\* conn.open_bi().await of connect_once succeeds or fails
OpenBi(ok) ==
    /\ client.pc = "open_bi"
    /\ client' =
         IF ok
         THEN [client EXCEPT !.opens = @ + 1, !.pc = "done", !.result = "Ok"]
         ELSE [client EXCEPT !.opens = @ + 1, !.failed = @ + 1, !.pc = "sleep"]
    /\ UNCHANGED <<peer, chunks, emitted, reader, server, conns, streams, simple, creds>>

\* tokio::time::sleep(2 s) after the failed attempt, then the next try_num
Sleep ==
    /\ client.pc = "sleep"
    /\ client' = [client EXCEPT !.sleeps = @ + 1, !.try_num = WrappingInc(@), !.pc = "loop"]
    /\ UNCHANGED <<peer, chunks, emitted, reader, server, conns, streams, simple, creds>>

NextClient ==
    \/ EnterLoop
    \/ NextAttempt
    \/ GiveUp
    \/ \E ok \in BOOLEAN : Handshake(ok)
    \/ \E ok \in BOOLEAN : OpenBi(ok)
    \/ Sleep

SpecClient == InitClient /\ [][NextClient]_vars

-----------------------------------------------------------------------------
(* SpecSimple: SendStream::send on one side, RecvStream::receive on the     *)
(* other side of the stream                                                 *)

\* byte values carried by a length-prefixed exchange
SimpleBytes == {0, 1, 255}

\* u32::to_le_bytes of a small number: the prefix a caller of send builds
to_le_bytes(n) ==
    <<n % 256, (n \div 256) % 256, (n \div 65536) % 256, n \div 16777216>>

\* u32::from_le_bytes read with the most significant byte first
from_be_bytes(b) == <<b[1] * 256 + b[2], b[3] * 256 + b[4]>>

\* u32::from_le_bytes: byte 0 is the least significant
from_le_bytes(b) == <<b[4] * 256 + b[3], b[2] * 256 + b[1]>>

\* the bytes of a slice of Bytes, in order
RECURSIVE Concat(_)
Concat(data) == IF data = << >> THEN << >> ELSE Head(data) \o Concat(Tail(data))

\* The exchange: send is called with data, a slice of Bytes; framed says
\* the caller put the 4-byte length of payload in front of it.  written are
\* the bytes send has written, of which the transport has delivered the
\* first delivered, of which receive has read the first consumed.
SimpleCall(payload, framed) ==
    [payload |-> payload,
     framed |-> framed,
     data |-> IF framed THEN <<to_le_bytes(Len(payload)), payload>>
                        ELSE <<payload>>,
     send_pc |-> "write", written |-> << >>, finished |-> FALSE,
     delivered |-> 0, consumed |-> 0,
     recv_pc |-> "size", size |-> U32(0), result |-> <<"none">>]

InitSimple ==
    /\ simple \in {SimpleCall(payload, framed) :
                       payload \in SeqUpTo(SimpleBytes, MaxPayload),
                       framed \in BOOLEAN}
    /\ peer = PeerIdle
    /\ chunks = << >>
    /\ emitted = << >>
    /\ reader = "idle"
    /\ client = ClientIdle
    /\ server = ServerIdle
    /\ conns = << >>
    /\ streams = << >>
    /\ creds = CredsIdle

\* the bytes delivered and not yet read
Available == simple.delivered - simple.consumed

\* no byte will follow the available ones: the writer finished the stream
\* and everything written was delivered
EndOfStream == simple.finished /\ simple.delivered = Len(simple.written)

\* SendStream::send: write_all_chunks writes the bytes of data, as they are
Send ==
    /\ simple.send_pc = "write"
    /\ simple' = [simple EXCEPT !.written = Concat(simple.data), !.send_pc = "done"]
    /\ UNCHANGED <<peer, chunks, emitted, reader, client, server, conns, streams, creds>>

\* the writer is done with the stream and finishes it
Finish ==
    /\ simple.send_pc = "done"
    /\ ~simple.finished
    /\ simple' = [simple EXCEPT !.finished = TRUE]
    /\ UNCHANGED <<peer, chunks, emitted, reader, client, server, conns, streams, creds>>

\* the transport delivers the next packet of k bytes, in order
Deliver(k) ==
    /\ simple.delivered + k <= Len(simple.written)
    /\ simple' = [simple EXCEPT !.delivered = @ + k]
    /\ UNCHANGED <<peer, chunks, emitted, reader, client, server, conns, streams, creds>>

\* receive, first read_exact: the 4 bytes of the size
ReadSize ==
    /\ simple.recv_pc = "size"
    /\ Available >= 4
    /\ simple' = [simple EXCEPT
           !.size = from_le_bytes(SubSeq(simple.written, simple.consumed + 1,
                                         simple.consumed + 4)),
           !.consumed = @ + 4,
           !.recv_pc = "body"]
    /\ UNCHANGED <<peer, chunks, emitted, reader, client, server, conns, streams, creds>>

\* receive, second read_exact: size bytes, returned as the buffer
ReadBody ==
    /\ simple.recv_pc = "body"
    /\ simple.size[1] = 0 /\ Available >= simple.size[2]
    /\ simple' = [simple EXCEPT
           !.result = <<"Ok", SubSeq(simple.written, simple.consumed + 1,
                                     simple.consumed + simple.size[2])>>,
           !.consumed = @ + simple.size[2],
           !.recv_pc = "done"]
    /\ UNCHANGED <<peer, chunks, emitted, reader, client, server, conns, streams, creds>>

\* either read_exact meets the end of the stream before its last byte: `?`
\* returns the error
ReadExactFails ==
    /\ EndOfStream
    /\ \/ simple.recv_pc = "size" /\ Available < 4
       \/ simple.recv_pc = "body" /\ ~(simple.size[1] = 0 /\ Available >= simple.size[2])
    /\ simple' = [simple EXCEPT !.result = <<"Err">>, !.recv_pc = "done"]
    /\ UNCHANGED <<peer, chunks, emitted, reader, client, server, conns, streams, creds>>

NextSimple ==
    \/ Send
    \/ Finish
    \/ \E k \in 1..PacketLen : Deliver(k)
    \/ ReadSize
    \/ ReadBody
    \/ ReadExactFails

SpecSimple == InitSimple /\ [][NextSimple]_vars

-----------------------------------------------------------------------------
(* SpecServer: handle_node_server, and the handle_quic_connection_node and  *)
(* handle_quic_stream_node tasks it spawns                                  *)

\* rmp_serde::from_slice::<Request>(&bytes) is Ok: the bytes start with the
\* marker of a Request (1 stands for it, any other first byte for none)
Deserializes(bytes) == bytes # << >> /\ bytes[1] = 1

\* the chunks a peer writes on a stream of the server, one byte each: a
\* whole message that is a Request (message_id 1 or 2), a whole message that
\* is none, and one half of a two-byte Request
ServerChunks ==
    {[message_id |-> c[1], message_size |-> c[2], chunk_id |-> 0,
      chunk_size |-> 1, data |-> <<c[3]>>] :
        c \in {<<1, 1, 1>>, <<2, 1, 1>>, <<2, 1, 0>>, <<1, 2, 1>>}}

\* the one chunk of ServerChunks that is a whole Request with message_id 1
OneRequest == {w \in ServerChunks : w.message_id = 1 /\ Deserializes(w.data) /\ w.message_size = 1}

\* the task tokio::spawn(handle_quic_connection_node(ctx, conn)) starts
NewConn ==
    [pc |-> "handshake", close_reason |-> "None", result |-> "none",
     erred |-> FALSE]

\* the task tokio::spawn(handle_quic_stream_node(ctx, send, recv)) starts on
\* connection c, with its own empty RecvCtx.chunks; completed are the
\* messages read_next_stream_message has returned to it, handled the
\* message_ids it has passed to handle_message; after_error says an
\* accept_bi of the connection had failed before this stream was accepted,
\* failed_mid that its read failed while a sibling held part of a message
NewStream(c) ==
    [conn |-> c, pc |-> "read", chunks |-> << >>, completed |-> << >>,
     handled |-> << >>, after_error |-> conns[c].erred, failed_mid |-> FALSE]

\* The remote side: how many connections it will make and streams it will
\* open, the chunks it may write and how many, and the chunks written and the accept_bi errors met
\* so far.
Remote(max_conns, max_streams, inputs, max_reads) ==
    [max_conns |-> max_conns, max_streams |-> max_streams, inputs |-> inputs,
     max_reads |-> max_reads, written |-> 0, errors |-> 0]

\* handle_node_server starts on a fresh endpoint; the peers make up to
\* MaxConns connections, open one stream and write one whole Request
InitServer ==
    /\ server = [pc |-> "accept", endpoint |-> "open", result |-> "none"]
    /\ conns = << >>
    /\ streams = << >>
    /\ peer = Remote(MaxConns, 1, OneRequest, 1)
    /\ chunks = << >>
    /\ emitted = << >>
    /\ reader = "idle"
    /\ client = ClientIdle
    /\ simple = SimpleIdle
    /\ creds = CredsIdle

\* AcceptConn as it would be if the loop awaited the handler of a connection
\* before it accepted the next
AcceptConn_Await ==
    /\ server.pc = "accept"
    /\ server.endpoint = "open"
    /\ Len(conns) < peer.max_conns
    /\ \A c \in DOMAIN conns : conns[c].pc = "done"
    /\ conns' = Append(conns, NewConn)
    /\ UNCHANGED <<server, streams, peer, chunks, emitted, reader, client, simple, creds>>

\* quic_server.accept().await yields a connection: its handler is spawned
\* and the loop accepts again
AcceptConn ==
    /\ server.pc = "accept"
    /\ server.endpoint = "open"
    /\ Len(conns) < peer.max_conns
    /\ conns' = Append(conns, NewConn)
    /\ UNCHANGED <<server, streams, peer, chunks, emitted, reader, client, simple, creds>>

\* the endpoint is shut down: accept() will yield None
EndpointClose ==
    /\ server.endpoint = "open"
    /\ server' = [server EXCEPT !.endpoint = "closed"]
    /\ UNCHANGED <<conns, streams, peer, chunks, emitted, reader, client, simple, creds>>

\* ServerResult as it would be if the end of the loop were a clean exit
ServerResult_Ok == "Ok"

\* what handle_node_server returns when its loop ends
ServerResult == "Err(Node server exited)"

\* accept() yields None: the while loop ends and the function returns
ServerExit ==
    /\ server.pc = "accept"
    /\ server.endpoint = "closed"
    /\ server' = [server EXCEPT !.pc = "returned", !.result = ServerResult]
    /\ UNCHANGED <<conns, streams, peer, chunks, emitted, reader, client, simple, creds>>

\* conn.await? : the handshake ends; on failure `?` returns the error
ConnHandshake(c, ok) ==
    /\ conns[c].pc = "handshake"
    /\ conns' = [conns EXCEPT ![c] =
           IF ok THEN [@ EXCEPT !.pc = "top"]
                 ELSE [@ EXCEPT !.pc = "done", !.result = "Err"]]
    /\ UNCHANGED <<server, streams, peer, chunks, emitted, reader, client, simple, creds>>

\* the established connection is closed, by this side (LocallyClosed) or
\* not (by the peer, a timeout, a reset)
ConnClose(c, reason) ==
    /\ conns[c].pc \in {"top", "accept_bi"}
    /\ conns[c].close_reason = "None"
    /\ conns' = [conns EXCEPT ![c].close_reason = reason]
    /\ UNCHANGED <<server, streams, peer, chunks, emitted, reader, client, simple, creds>>

\* ConnCheck as it would be without the close_reason test at the top of the
\* loop
ConnCheck_NoTest(c) ==
    /\ conns[c].pc = "top"
    /\ conns' = [conns EXCEPT ![c].pc = "accept_bi"]
    /\ UNCHANGED <<server, streams, peer, chunks, emitted, reader, client, simple, creds>>

\* the top of the loop: a close reason ends it, and the handler returns Ok
ConnCheck(c) ==
    /\ conns[c].pc = "top"
    /\ conns' = [conns EXCEPT ![c] =
           IF @.close_reason # "None"
           THEN [@ EXCEPT !.pc = "done", !.result = "Ok"]
           ELSE [@ EXCEPT !.pc = "accept_bi"]]
    /\ UNCHANGED <<server, streams, peer, chunks, emitted, reader, client, simple, creds>>

\* conn.accept_bi().await is Ok((s, r)): the stream's handler is spawned
ConnAcceptOk(c) ==
    /\ conns[c].pc = "accept_bi"
    /\ conns[c].close_reason = "None"
    /\ Len(streams) < peer.max_streams
    /\ streams' = Append(streams, NewStream(c))
    /\ conns' = [conns EXCEPT ![c].pc = "top"]
    /\ UNCHANGED <<server, peer, chunks, emitted, reader, client, simple, creds>>

\* AfterAcceptErr as it would be if every error ended the loop
AfterAcceptErr_Break(conn, e) == [conn EXCEPT !.pc = "done", !.result = "Ok"]

\* the handler after accept_bi returned Err(e)
AfterAcceptErr(conn, e) ==
    IF e = "LocallyClosed"
    THEN [conn EXCEPT !.pc = "done", !.result = "Ok"]
    ELSE [conn EXCEPT !.pc = "top", !.erred = TRUE]

\* conn.accept_bi().await is Err(e): the close reason of a closed
\* connection, or an error that leaves the connection open
ConnAcceptErr(c, e) ==
    /\ conns[c].pc = "accept_bi"
    /\ IF conns[c].close_reason = "None"
       THEN /\ e = "Other"
            /\ peer.errors < MaxErrors
            /\ peer' = [peer EXCEPT !.errors = @ + 1]
       ELSE /\ e = conns[c].close_reason
            /\ peer' = peer
    /\ conns' = [conns EXCEPT ![c] = AfterAcceptErr(@, e)]
    /\ UNCHANGED <<server, streams, chunks, emitted, reader, client, simple, creds>>

\* AfterMessage as it would be if a message that is no Request ended the
\* read loop
AfterMessage_StopOnBad(stream, message) ==
    IF Deserializes(message[2])
    THEN [stream EXCEPT !.pc = "handle_message",
                        !.completed = Append(@, message),
                        !.handled = Append(@, message[1])]
    ELSE [stream EXCEPT !.completed = Append(@, message), !.pc = "ended",
                        !.chunks = << >>]

\* AfterMessage as it would be if handle_message were spawned and the read
\* loop went on at once
AfterMessage_Spawned(stream, message) ==
    IF Deserializes(message[2])
    THEN [stream EXCEPT !.completed = Append(@, message),
                        !.handled = Append(@, message[1])]
    ELSE [stream EXCEPT !.completed = Append(@, message)]

\* the stream handler after read_next_stream_message returned Ok(message):
\* a Request goes to handle_message, anything else is logged and dropped
AfterMessage(stream, message) ==
    IF Deserializes(message[2])
    THEN [stream EXCEPT !.pc = "handle_message",
                        !.completed = Append(@, message),
                        !.handled = Append(@, message[1])]
    ELSE [stream EXCEPT !.completed = Append(@, message)]

\* one iteration of read_next_stream_message in the handler of stream s
StreamRead(s, w) ==
    /\ streams[s].pc = "read"
    /\ peer.written < peer.max_reads
    /\ peer' = [peer EXCEPT !.written = @ + 1]
    /\ LET step == StepMessage(streams[s].chunks, read_next_stream_chunk(w))
           read == [streams[s] EXCEPT !.chunks = step.chunks]
       IN  streams' = [streams EXCEPT ![s] =
               IF step.out = << >> THEN read
               ELSE AfterMessage(read, step.out[1])]
    /\ UNCHANGED <<server, conns, chunks, emitted, reader, client, simple, creds>>

\* a stream of the connection of s, other than s, holds part of a message
SiblingMidMessage(all, s) ==
    \E t \in DOMAIN all \ {s} : all[t].conn = all[s].conn /\ all[t].chunks # << >>

\* AfterReadFail as it would be if the error ended every handler of the
\* connection
AfterReadFail_WholeConn(all, s) ==
    [t \in DOMAIN all |->
        IF all[t].conn = all[s].conn
        THEN [all[t] EXCEPT !.pc = "read_error", !.chunks = << >>,
                            !.failed_mid = SiblingMidMessage(all, s)]
        ELSE all[t]]

\* the streams after the read of stream s failed
AfterReadFail(all, s) ==
    [all EXCEPT ![s] = [@ EXCEPT !.pc = "read_error", !.chunks = << >>,
                                 !.failed_mid = SiblingMidMessage(all, s)]]

\* read_next_stream_chunk fails on stream s: the while-let loop of its
\* handler ends, the handler returns and its RecvCtx is dropped
StreamReadFail(s) ==
    /\ streams[s].pc = "read"
    /\ streams' = AfterReadFail(streams, s)
    /\ UNCHANGED <<server, conns, peer, chunks, emitted, reader, client, simple, creds>>

\* handle_message(ctx, send, msg_id, request).await returns
HandleReturn(s) ==
    /\ streams[s].pc = "handle_message"
    /\ streams' = [streams EXCEPT ![s].pc = "read"]
    /\ UNCHANGED <<server, conns, peer, chunks, emitted, reader, client, simple, creds>>

NextServer ==
    \/ AcceptConn
    \/ EndpointClose
    \/ ServerExit
    \/ \E c \in DOMAIN conns, ok \in BOOLEAN : ConnHandshake(c, ok)
    \/ \E c \in DOMAIN conns, reason \in {"LocallyClosed", "Other"} : ConnClose(c, reason)
    \/ \E c \in DOMAIN conns : ConnCheck(c)
    \/ \E c \in DOMAIN conns : ConnAcceptOk(c)
    \/ \E c \in DOMAIN conns, e \in {"LocallyClosed", "Other"} : ConnAcceptErr(c, e)
    \/ \E s \in DOMAIN streams, w \in peer.inputs : StreamRead(s, w)
    \/ \E s \in DOMAIN streams : StreamReadFail(s)
    \/ \E s \in DOMAIN streams : HandleReturn(s)

SpecServer == InitServer /\ [][NextServer]_vars

\* SpecTasks: the server with two peers that connect, open streams and write
\* one Request: the handlers of two connections and of their streams side
\* by side
InitTasks ==
    /\ server = [pc |-> "accept", endpoint |-> "open", result |-> "none"]
    /\ conns = << >>
    /\ streams = << >>
    /\ peer = Remote(2, MaxStreams, OneRequest, 1)
    /\ chunks = << >>
    /\ emitted = << >>
    /\ reader = "idle"
    /\ client = ClientIdle
    /\ simple = SimpleIdle
    /\ creds = CredsIdle

SpecTasks == InitTasks /\ [][NextServer]_vars

\* SpecConn: one connection of the server after its handshake, whose peer
\* opens streams and writes every chunk of ServerChunks
InitConn ==
    /\ server = [pc |-> "accept", endpoint |-> "open", result |-> "none"]
    /\ conns = <<[NewConn EXCEPT !.pc = "top"]>>
    /\ streams = << >>
    /\ peer = Remote(1, MaxStreams, ServerChunks, MaxReads)
    /\ chunks = << >>
    /\ emitted = << >>
    /\ reader = "idle"
    /\ client = ClientIdle
    /\ simple = SimpleIdle
    /\ creds = CredsIdle

NextConn ==
    \/ \E c \in DOMAIN conns, reason \in {"LocallyClosed", "Other"} : ConnClose(c, reason)
    \/ \E c \in DOMAIN conns : ConnCheck(c)
    \/ \E c \in DOMAIN conns : ConnAcceptOk(c)
    \/ \E c \in DOMAIN conns, e \in {"LocallyClosed", "Other"} : ConnAcceptErr(c, e)
    \/ \E s \in DOMAIN streams, w \in peer.inputs : StreamRead(s, w)
    \/ \E s \in DOMAIN streams : StreamReadFail(s)
    \/ \E s \in DOMAIN streams : HandleReturn(s)

SpecConn == InitConn /\ [][NextConn]_vars

\* accept_bi on a closed connection resolves, with the error of the close
ClosedAcceptFails(c) ==
    /\ conns[c].close_reason # "None"
    /\ \E e \in {"LocallyClosed", "Other"} : ConnAcceptErr(c, e)

\* SpecConnFair: one established connection whose peer writes one Request,
\* with the scheduling the runtime gives the handler: the spawned task is
\* polled when it can go on (the close_reason test is not a suspension
\* point), and accept_bi on a closed connection completes.
InitConnFair ==
    /\ server = [pc |-> "accept", endpoint |-> "open", result |-> "none"]
    /\ conns = <<[NewConn EXCEPT !.pc = "top"]>>
    /\ streams = << >>
    /\ peer = Remote(1, MaxStreams, OneRequest, 1)
    /\ chunks = << >>
    /\ emitted = << >>
    /\ reader = "idle"
    /\ client = ClientIdle
    /\ simple = SimpleIdle
    /\ creds = CredsIdle

SpecConnFair ==
    /\ InitConnFair
    /\ [][NextConn]_vars
    /\ WF_vars(\E c \in DOMAIN conns : ConnCheck(c))
    /\ WF_vars(\E c \in DOMAIN conns : ClosedAcceptFails(c))

-----------------------------------------------------------------------------
(* SpecCreds: new_quic_client and new_quic_server                           *)

\* A PEM string is the sequence of its blocks; a block is known by its label.
\* "CORRUPT" is a block of a recognised label whose base64 body does not
\* decode, "OTHER" a well-formed block of a label rustls_pemfile does not know.
PemLabels == {"CERTIFICATE", "PRIVATE KEY", "RSA PRIVATE KEY", "OTHER", "CORRUPT"}

\* the largest number of blocks in one PEM string
MaxBlocks == 1

PemStrings == SeqUpTo(PemLabels, MaxBlocks)

\* rustls_pemfile::read_one: the first item of a recognised label, "None"
\* when the text holds no such block, "Err" when the block does not decode.
RECURSIVE read_one(_)
read_one(pem) ==
    IF pem = << >> THEN "None"
    ELSE CASE Head(pem) = "CERTIFICATE" -> "X509Certificate"
           [] Head(pem) = "PRIVATE KEY" -> "PKCS8Key"
           [] Head(pem) = "RSA PRIVATE KEY" -> "RSAKey"
           [] Head(pem) = "CORRUPT" -> "Err"
           [] OTHER -> read_one(Tail(pem))

\* `read_one(..)?.unwrap()` followed by `match item { expected => Ok(..),
\* _ => Err(anyhow!(message)) }?`: where the function goes on to, and with
\* what result.  `?` returns the io error, unwrap() panics on None.
Checked(pem, expected, message, next_pc) ==
    LET item == read_one(pem) IN
    CASE item = "Err" -> [pc |-> "done", result |-> "Err(io)"]
      [] item = "None" -> [pc |-> "panicked", result |-> "panic"]
      [] item = expected -> [pc |-> next_pc, result |-> "none"]
      [] OTHER -> [pc |-> "done", result |-> message]

CredsCall(fn, ca_cert, cert, key) ==
    [fn |-> fn, ca_cert |-> ca_cert, cert |-> cert, key |-> key,
     pc |-> "ca_cert", result |-> "none", endpoint |-> FALSE]

InitCreds ==
    /\ creds \in {CredsCall(fn, ca_cert, cert, key) :
                      fn \in {"new_quic_client", "new_quic_server"},
                      ca_cert \in PemStrings, cert \in PemStrings,
                      key \in PemStrings}
    /\ peer = PeerIdle
    /\ chunks = << >>
    /\ emitted = << >>
    /\ reader = "idle"
    /\ client = ClientIdle
    /\ server = ServerIdle
    /\ conns = << >>
    /\ streams = << >>
    /\ simple = SimpleIdle

Advance(to) ==
    /\ creds' = [creds EXCEPT !.pc = to.pc, !.result = to.result]
    /\ UNCHANGED <<peer, chunks, emitted, reader, client, server, conns, streams, simple>>

\* the CA certificate is read and checked first
ReadCaCert ==
    /\ creds.pc = "ca_cert"
    /\ Advance(Checked(creds.ca_cert, "X509Certificate",
                       "Err(Not a valid certificate.)", "roots"))

\* roots.add(&ca_cert)?: fails on a certificate webpki cannot parse
AddRoot(ok) ==
    /\ creds.pc = "roots"
    /\ Advance(IF ok THEN [pc |-> "key", result |-> "none"]
                     ELSE [pc |-> "done", result |-> "Err(webpki)"])

\* the private key is read before the local certificate
ReadKey ==
    /\ creds.pc = "key"
    /\ Advance(Checked(creds.key, "PKCS8Key",
                       "Err(Not a valid private key.)", "cert"))

ReadCert ==
    /\ creds.pc = "cert"
    /\ Advance(Checked(creds.cert, "X509Certificate",
                       "Err(Not a valid certificate)", "config"))

\* with_single_cert(cert, pk)?
SingleCert(ok) ==
    /\ creds.pc = "config"
    /\ Advance(IF ok THEN [pc |-> "endpoint", result |-> "none"]
                     ELSE [pc |-> "done", result |-> "Err(rustls)"])

\* Endpoint::client(..)? / Endpoint::server(..)?: the socket may fail to bind
MakeEndpoint(ok) ==
    /\ creds.pc = "endpoint"
    /\ creds' = [creds EXCEPT !.pc = "done", !.endpoint = ok,
                              !.result = IF ok THEN "Ok" ELSE "Err(io)"]
    /\ UNCHANGED <<peer, chunks, emitted, reader, client, server, conns, streams, simple>>

NextCreds ==
    \/ ReadCaCert
    \/ \E ok \in BOOLEAN : AddRoot(ok)
    \/ ReadKey
    \/ ReadCert
    \/ \E ok \in BOOLEAN : SingleCert(ok)
    \/ \E ok \in BOOLEAN : MakeEndpoint(ok)

SpecCreds == InitCreds /\ [][NextCreds]_vars

-----------------------------------------------------------------------------
(* Claims about the reassembler, under Spec                                 *)

\* the payloads emitted for message_id m, in the order they were emitted
EmittedFor(m) ==
    LET of_m == SelectSeq(emitted, LAMBDA e : e[1] = m)
    IN  [i \in 1..Len(of_m) |-> of_m[i][2]]

\* the peer has written all of payload[m], in one or more chunks
Complete(m) == peer.nchunks[m] >= 1 /\ peer.sent[m] = Len(peer.payload[m])

\* the chunks read so far all carry message_id m
OnlyMessage(m) == \A o \in MessageIds \ {m} : peer.nchunks[o] = 0

\* payload[m] is empty and was written as two or more (empty) chunks
EmptyInPieces(m) == Len(peer.payload[m]) = 0 /\ peer.nchunks[m] >= 2

\* what a message written with correct headers must have produced: nothing
\* before its last byte is read, and the payload, once, from then on
ExactlyOnce(m) ==
    /\ emitted # << >> => Complete(m)
    /\ Complete(m) => emitted = << <<m, peer.payload[m]>> >>

\* C1 as stated: on a fresh buffer, every split of every payload P (empty
\* chunks and the empty payload included) into chunks that all carry one
\* message_id and message_size = Len(P) makes the reassembler emit
\* (message_id, P), the original bytes, exactly once.
C1_RoundTripAnySplit ==
    \A m \in MessageIds : OnlyMessage(m) /\ peer.honest[m] => ExactlyOnce(m)

\* C1 amended: the round trip of C1 holds for every split of a non-empty
\* payload and for the empty payload written as one chunk; the empty payload
\* written as k >= 2 chunks is emitted k times, once per chunk.
C1_RoundTrip ==
    \A m \in MessageIds : OnlyMessage(m) /\ peer.honest[m] =>
        IF EmptyInPieces(m)
        THEN emitted = [i \in 1..peer.nchunks[m] |-> <<m, << >> >>]
        ELSE ExactlyOnce(m)

\* a two-byte payload written as three chunks, one of them empty, has been
\* emitted whole
C1_Witness ==
    \E m \in MessageIds :
        /\ OnlyMessage(m) /\ peer.honest[m] /\ Complete(m)
        /\ Len(peer.payload[m]) = 2 /\ peer.nchunks[m] = 3
        /\ emitted = << <<m, peer.payload[m]>> >>

\* what interleaved messages with correct headers must have produced: for
\* each message_id nothing before its last byte, then its own payload once
EachExactlyOnce(m) ==
    EmittedFor(m) = IF Complete(m) THEN <<peer.payload[m]>> ELSE << >>

\* C2 as stated: two message_ids whose chunk sequences, each with its own
\* correct message_size, arrive interleaved in any order are each emitted
\* exactly once, each with exactly its own bytes.
C2_InterleavingAnySplit ==
    (\A m \in MessageIds : peer.honest[m]) =>
        \A m \in MessageIds : EachExactlyOnce(m)

\* C2 amended: the same, for chunk sequences in which an empty payload is
\* written as a single chunk; what is emitted for a message_id does not
\* depend on how far the other message has got.
C2_Interleaving ==
    (\A m \in MessageIds : peer.honest[m] /\ ~EmptyInPieces(m)) =>
        \A m \in MessageIds : EachExactlyOnce(m)

\* two two-byte messages, two chunks each, interleaved on the wire, have
\* both been emitted
C2_Witness ==
    /\ peer.interleaved
    /\ \A m \in MessageIds :
           /\ peer.honest[m] /\ Complete(m)
           /\ Len(peer.payload[m]) = 2 /\ peer.nchunks[m] = 2
    /\ Len(emitted) = 2

\* C7 as stated: in every reachable state of the buffer, whatever chunks
\* the peer sends, an entry's accumulated length is at most its declared
\* message_size.
C7_AccumulatedWithinDeclared ==
    \A m \in DOMAIN chunks : Len(chunks[m][2]) <= chunks[m][1]

-----------------------------------------------------------------------------
(* Claims about the client, under SpecClient                                *)

\* C3 as stated: for every retry value N, a try_connect whose handshakes
\* all fail makes exactly N handshake attempts and then returns the "Failed
\* to connect" error: never more than N attempts, and the call ends with
\* that error (it does not panic, and it does not give up before the Nth
\* attempt).
C3_ExactlyNAttempts ==
    client.op = "try_connect" =>
        /\ AtMost(client.handshakes, client.retry)
        /\ client.pc # "panicked"
        /\ client.result = "Err" => IsNat(client.retry, client.handshakes)

\* C10: Client::connect spends one retry budget on handshake and stream
\* opening together: at most retry handshakes, at most one open_bi per
\* handshake, every failure of either step is one failed attempt of the one
\* loop, no attempt starts once retry attempts have failed, and the call
\* that ends after retry failed attempts returns the error.
C10_SharedBudget ==
    client.op = "connect" =>
        /\ AtMost(client.handshakes, client.retry)
        /\ client.opens <= client.handshakes
        /\ client.failed <= client.handshakes
        /\ client.handshakes <= client.failed + 1
        /\ IsNat(client.retry, client.failed) =>
               client.pc \in {"start", "sleep", "loop", "done"}
        /\ IsNat(client.retry, client.failed) /\ client.pc = "done" =>
               client.result = "Err"

\* a connect with retry = 2 has ended with the error after one failed
\* handshake and one failed open_bi
C10_Witness ==
    /\ client.op = "connect" /\ client.retry = U32(2)
    /\ client.pc = "done" /\ client.result = "Err"
    /\ client.handshakes = 2 /\ client.opens = 1 /\ client.failed = 2

-----------------------------------------------------------------------------
(* Claims about the length-prefixed exchange, under SpecSimple              *)

\* C9 as stated: send of a payload writes the payload's length as 4
\* little-endian bytes and then the payload, so a receive on the peer
\* returns the payload handed to send, whatever the payload.
C9_SendWritesPrefix ==
    ~simple.framed =>
        /\ simple.send_pc = "done" =>
               simple.written = to_le_bytes(Len(simple.payload)) \o simple.payload
        /\ simple.recv_pc = "done" => simple.result = <<"Ok", simple.payload>>

\* C9 amended: send writes the bytes it is given and nothing else; the
\* 4-byte little-endian length is part of what the caller hands to send.
\* When it is, receive reads the length, then exactly that many bytes, and
\* returns the payload, for every payload (empty, one byte, longer than a
\* packet), leaving no byte unread.
C9_RoundTrip ==
    /\ simple.send_pc = "done" => simple.written = Concat(simple.data)
    /\ simple.framed /\ simple.recv_pc = "body" =>
           simple.size = U32(Len(simple.payload))
    /\ simple.framed /\ simple.recv_pc = "done" =>
           /\ simple.result = <<"Ok", simple.payload>>
           /\ simple.consumed = Len(simple.written)

\* a framed payload longer than a packet has been received whole
C9_Witness ==
    /\ simple.framed
    /\ Len(simple.payload) > PacketLen
    /\ simple.recv_pc = "done"
    /\ simple.result = <<"Ok", simple.payload>>

-----------------------------------------------------------------------------
(* Claims about the server's handlers, under SpecConn and SpecServer        *)

\* the message_ids of the messages of a sequence that are Requests
RequestIds(messages) ==
    LET requests == SelectSeq(messages, LAMBDA m : Deserializes(m[2]))
    IN  [i \in 1..Len(requests) |-> requests[i][1]]

\* C4: a reassembled message that is no Request is dropped without a call of
\* handle_message and the read loop goes on: the loop ends on a read error
\* only, handle_message is called for a Request only, and the calls made
\* are, in order, the Requests completed on the stream, each with its own
\* message_id, whatever was dropped before them.
C4_BadMessageDropped ==
    \A s \in DOMAIN streams :
        /\ streams[s].pc \in {"read", "handle_message", "read_error"}
        /\ streams[s].handled = RequestIds(streams[s].completed)
        /\ streams[s].pc = "handle_message" =>
               /\ streams[s].completed # << >>
               /\ Deserializes(streams[s].completed[Len(streams[s].completed)][2])

\* a stream dropped a message that is no Request and is now in
\* handle_message with the Request that followed it
C4_Witness ==
    \E s \in DOMAIN streams :
        /\ Len(streams[s].completed) = 2
        /\ ~Deserializes(streams[s].completed[1][2])
        /\ streams[s].pc = "handle_message"
        /\ streams[s].handled = <<streams[s].completed[2][1]>>

\* C5: an accept_bi error other than local closure does not end the accept
\* loop of the connection: the handler of an established connection has
\* returned only if the connection is closed, and every stream accepted,
\* before or after an error, has a handler of its own.
C5_AcceptLoopSurvivesError ==
    /\ \A c \in DOMAIN conns :
           conns[c].pc = "done" => conns[c].close_reason # "None"
    /\ \A s \in DOMAIN streams :
           streams[s].after_error => conns[streams[s].conn].erred

\* accept_bi failed on an open connection, a stream was accepted afterwards
\* and its handler has a Request in handle_message
C5_Witness ==
    \E s \in DOMAIN streams :
        /\ streams[s].after_error
        /\ conns[streams[s].conn].close_reason = "None"
        /\ streams[s].pc = "handle_message"

\* C6: a failed read on one stream ends the read loop of that stream only:
\* in the step in which a stream's read fails, every other stream handler
\* (its position, its RecvCtx.chunks, its messages) and the accept loops of
\* the connection and of the server are as they were.
C6_ReadFailureIsLocal ==
    [][\A s \in DOMAIN streams :
           (streams[s].pc = "read" /\ streams'[s].pc = "read_error") =>
               /\ \A t \in DOMAIN streams \ {s} : streams'[t] = streams[t]
               /\ conns' = conns
               /\ server' = server]_vars

\* a stream's read failed while its sibling held the first half of a
\* message; the sibling then read the second half and has the whole message
\* in handle_message, and the accept loop of the connection is running
C6_Witness ==
    \E s, t \in DOMAIN streams :
        /\ s # t /\ streams[s].conn = streams[t].conn
        /\ streams[s].pc = "read_error" /\ streams[s].failed_mid
        /\ Len(streams) = 2 /\ peer.written = 2
        /\ streams[t].pc = "handle_message"
        /\ Len(streams[t].completed) = 1
        /\ Len(streams[t].completed[1][2]) = 2
        /\ conns[streams[s].conn].pc \in {"top", "accept_bi"}

\* C8: handle_node_server leaves its accept loop only when the endpoint is
\* shut down, having spawned a handler for every connection accepted, and
\* then returns Err("Node server exited"); it never returns Ok.
C8_ServerExitIsError ==
    /\ server.result # "Ok"
    /\ server.pc = "returned" =>
           server.endpoint = "closed" /\ server.result = "Err(Node server exited)"
    /\ server.pc = "accept" => server.result = "none"

\* the server accepted two connections, the endpoint was shut down and the
\* server returned the error
C8_Witness ==
    /\ server.pc = "returned"
    /\ server.result = "Err(Node server exited)"
    /\ Len(conns) = 2

-----------------------------------------------------------------------------
(* Claims about the constructors, under SpecCreds                           *)

\* the call has ended, by a return or by a panic
CredsEnded == creds.pc \in {"done", "panicked"}

\* the results that are Err values
CredsErrs ==
    {"Err(io)", "Err(webpki)", "Err(rustls)", "Err(Not a valid certificate.)",
     "Err(Not a valid private key.)", "Err(Not a valid certificate)"}

\* a string whose first recognised block is an item other than `expected`
WrongItem(pem, expected) == read_one(pem) \notin {"None", "Err", expected}

\* a string with no recognised PEM block at all
Absent(pem) == read_one(pem) = "None"

\* C11: whenever the CA certificate or the local certificate string parses
\* to an item that is not an X.509 certificate, or the key string to an item
\* that is not a PKCS#8 key, the constructor ends with an Err value (no
\* panic) and without an endpoint, and the error tells an invalid certificate
\* from an invalid private key.
C11_WrongItemIsError ==
    (/\ CredsEnded
     /\ \/ WrongItem(creds.ca_cert, "X509Certificate")
        \/ WrongItem(creds.cert, "X509Certificate")
        \/ WrongItem(creds.key, "PKCS8Key"))
    => /\ creds.result \in CredsErrs
       /\ ~creds.endpoint
       /\ creds.result = "Err(Not a valid private key.)"
             => WrongItem(creds.key, "PKCS8Key")
       /\ creds.result \in {"Err(Not a valid certificate.)",
                            "Err(Not a valid certificate)"}
             => \/ WrongItem(creds.ca_cert, "X509Certificate")
                \/ WrongItem(creds.cert, "X509Certificate")

\* The same statement for calls in which every string holds a PEM item: the
\* type checks themselves behave as C11 says.
C11_WrongItemIsErrorWhenPresent ==
    (~Absent(creds.ca_cert) /\ ~Absent(creds.cert) /\ ~Absent(creds.key))
    => C11_WrongItemIsError

\* C12: when the CA certificate, the local certificate or the key string
\* holds no PEM block, the constructor ends with an Err value, never with a
\* panic.
C12_AbsentIsError ==
    (/\ CredsEnded
     /\ Absent(creds.ca_cert) \/ Absent(creds.cert) \/ Absent(creds.key))
    => creds.result \in CredsErrs

-----------------------------------------------------------------------------
(* Further claims about the reassembler, under Spec                         *)

\* the message_id of the chunk a step of the read loop has read
ReadOf(m) == peer'.nchunks[m] = peer.nchunks[m] + 1

\* the payload of that chunk
DataOf(m) == SubSeq(peer.payload[m], peer.sent[m] + 1, peer'.sent[m])

\* C14: between two chunk reads no entry of the buffer has accumulated
\* exactly its declared size.  The step whose chunk brings an entry to its
\* declared size removes the entry and emits the message; a chunk for a
\* message_id without an entry (so also one that comes after the message of
\* that id was emitted) starts a fresh entry of its own bytes or, finished at
\* once, is emitted on its own.
C14_FinishedEntryLeaves ==
    [][reader' = reader =>
          /\ \A m \in DOMAIN chunks' : Len(chunks'[m][2]) # chunks'[m][1]
          /\ \A m \in MessageIds : ReadOf(m) =>
                 IF m \in DOMAIN chunks
                 THEN IF Len(chunks[m][2] \o DataOf(m)) = chunks[m][1]
                      THEN /\ m \notin DOMAIN chunks'
                           /\ emitted' = Append(emitted, <<m, chunks[m][2] \o DataOf(m)>>)
                      ELSE /\ m \in DOMAIN chunks'
                           /\ emitted' = emitted
                 ELSE \/ /\ m \in DOMAIN chunks'
                         /\ chunks'[m][2] = DataOf(m)
                         /\ emitted' = emitted
                      \/ /\ m \notin DOMAIN chunks'
                         /\ emitted' = Append(emitted, <<m, DataOf(m)>>)]_vars

\* a message was emitted for an id and a later chunk of the same id sits in
\* an entry of its own: the emitted bytes and the entry's bytes are the two
\* halves of what the peer wrote
C14_Witness ==
    \E m \in MessageIds :
        /\ Len(EmittedFor(m)) = 1
        /\ m \in DOMAIN chunks
        /\ chunks[m][2] # << >>
        /\ EmittedFor(m)[1] \o chunks[m][2] = peer.payload[m]

\* C15: the declared size of an entry is the message_size of the first chunk
\* of its message_id and never changes.  A chunk for an id that has an entry
\* adds its bytes to the entry and nothing else, and the entry is finished
\* or not by the size the first chunk declared, whatever message_size the
\* chunk's own header carries.  A chunk for message_id m leaves the entries
\* of the other ids as they were.
C15_DeclaredSizeFixed ==
    [][reader' = reader =>
          \A m \in MessageIds : ReadOf(m) =>
              /\ DOMAIN chunks' \ {m} = DOMAIN chunks \ {m}
              /\ \A x \in DOMAIN chunks \ {m} : chunks'[x] = chunks[x]
              /\ (m \in DOMAIN chunks /\ m \in DOMAIN chunks') =>
                     chunks'[m] = <<chunks[m][1], chunks[m][2] \o DataOf(m)>>
              /\ m \in DOMAIN chunks =>
                     (m \in DOMAIN chunks' <=>
                          Len(chunks[m][2] \o DataOf(m)) # chunks[m][1])
              /\ (m \notin DOMAIN chunks /\ m \in DOMAIN chunks' /\ peer.honest[m]) =>
                     (chunks'[m][1] = Len(peer.payload[m]) <=> peer'.honest[m])]_vars

\* an entry whose first chunk declared the true size has taken a later chunk
\* that declared another size, next to an entry of the other id: it keeps the
\* first chunk's size
C15_Witness ==
    \E m \in MessageIds :
        /\ m \in DOMAIN chunks
        /\ DOMAIN chunks \ {m} # {}
        /\ peer.nchunks[m] = 2
        /\ EmittedFor(m) = << >>
        /\ ~peer.honest[m]
        /\ chunks[m][1] = Len(peer.payload[m])

-----------------------------------------------------------------------------
(* Claims about chunk_id, under SpecChunkIds                                *)

\* C13: the reassembler ignores chunk_id.  Two runs that receive the same
\* chunks in the same arrival order and differ only in the chunk_id fields
\* have the same buffer and have emitted the same messages after every
\* chunk.
C13_ChunkIdIgnored ==
    peer # PeerIdle =>
        /\ streams[1].chunks = streams[2].chunks
        /\ streams[1].emitted = streams[2].emitted

\* the two runs saw different chunk_ids and both emitted a message made of
\* two one-byte chunks
C13_Witness ==
    /\ peer # PeerIdle
    /\ peer.differ
    /\ \E k \in 1..Len(streams[1].emitted) :
           /\ Len(streams[1].emitted[k][2]) = 2
           /\ streams[1].emitted[k][2][2] - streams[1].emitted[k][2][1] >= 16
    /\ \E k \in 1..Len(streams[2].emitted) : Len(streams[2].emitted[k][2]) = 2

-----------------------------------------------------------------------------
(* Claims about the end of a connection handler, under SpecConnFair         *)

\* C16: after the handshake the handler of a connection ends only by leaving
\* its loop on a close reason, seen at the top of an iteration or as the
\* LocallyClosed error of accept_bi, and it then returns Ok; and once the
\* connection is closed the handler does leave the loop: it does not go on
\* iterating over failing accepts.
C16_CleanEnd ==
    /\ [](conns[1].pc = "done" =>
              conns[1].result = "Ok" /\ conns[1].close_reason # "None")
    /\ (conns[1].close_reason # "None") ~> (conns[1].pc = "done")

\* a connection closed by the peer while the handler sat in accept_bi: the
\* accept failed with an error that is not LocallyClosed, the loop went on to
\* its top, met the close reason and returned Ok
C16_Witness ==
    /\ conns[1].pc = "done"
    /\ conns[1].result = "Ok"
    /\ conns[1].close_reason = "Other"
    /\ conns[1].erred
    /\ peer.errors = 0

-----------------------------------------------------------------------------
(* Claims about the spawned tasks, under SpecTasks                          *)

\* the accept loop of the server is not held up: with the endpoint open and
\* a peer connecting, accept() yields whatever the handlers are doing
OuterLoopFree ==
    (server.pc = "accept" /\ server.endpoint = "open" /\ Len(conns) < peer.max_conns)
        => ENABLED AcceptConn

\* the accept loop of an open connection is not held up by the handlers of
\* its streams
ConnLoopFree ==
    \A c \in DOMAIN conns :
        (/\ conns[c].pc = "accept_bi"
         /\ conns[c].close_reason = "None"
         /\ Len(streams) < peer.max_streams)
            => ENABLED ConnAcceptOk(c)

\* a step that accepts starts a handler of its own and leaves the accepting
\* loop at its next iteration, the handler not yet run
SpawnsAndGoesOn ==
    /\ Len(conns') > Len(conns) =>
           /\ server'.pc = "accept"
           /\ conns' = Append(conns, NewConn)
           /\ streams' = streams
    /\ Len(streams') > Len(streams) =>
           /\ Len(streams') = Len(streams) + 1
           /\ conns'[streams'[Len(streams')].conn].pc = "top"
           /\ streams'[Len(streams')].pc = "read"
           /\ \A t \in DOMAIN streams : streams'[t] = streams[t]

\* a step of one handler, its failure included, changes no other task: not
\* the accept loop of the server, not the handler of another connection, not
\* the handler of another stream
OwnStateOnly ==
    /\ \A c \in DOMAIN conns : conns'[c] # conns[c] =>
           /\ server' = server
           /\ \A d \in DOMAIN conns \ {c} : conns'[d] = conns[d]
           /\ \A t \in DOMAIN streams : streams'[t] = streams[t]
    /\ \A s \in DOMAIN streams : streams'[s] # streams[s] =>
           /\ server' = server
           /\ conns' = conns
           /\ \A t \in DOMAIN streams \ {s} : streams'[t] = streams[t]

\* C17: every accepted connection and stream gets a handler of its own and
\* the accepting loop goes on without waiting for it; a handler that fails
\* or does not finish stops neither the accept loop of the server, nor the
\* accept loop of a connection, nor a sibling handler.
C17_TaskIndependence ==
    /\ [](OuterLoopFree /\ ConnLoopFree)
    /\ [][SpawnsAndGoesOn /\ OwnStateOnly]_vars

\* the handshake of the first connection has failed and the read of a stream
\* of the second has failed, and the rest goes on: the server accepts, the
\* second connection waits for a stream, and a sibling stream is inside
\* handle_message
C17_Witness ==
    /\ Len(conns) = 2
    /\ conns[1].result = "Err"
    /\ conns[2].pc = "accept_bi"
    /\ conns[2].close_reason = "None"
    /\ server.pc = "accept"
    /\ server.endpoint = "open"
    /\ \E s, t \in DOMAIN streams :
           /\ streams[s].conn = 2 /\ streams[s].pc = "read_error"
           /\ streams[t].conn = 2 /\ streams[t].pc = "handle_message"

-----------------------------------------------------------------------------
(* Further claims about the client, under SpecClient                        *)

\* C18 as stated: the 2-second sleep happens only between two attempts.  A
\* call that has returned Ok slept once after each failed attempt; a call
\* whose attempts all failed slept once less than it failed, there being no
\* attempt after the last failure.
C18_SleepOnlyBetweenAttempts ==
    client.pc = "done" =>
        /\ client.result = "Ok" => client.sleeps = client.failed
        /\ (client.result = "Err" /\ client.failed > 0) =>
               client.sleeps = client.failed - 1

\* C20 as stated: retry + 1 does not overflow, so a call with
\* retry = 2^32 - 1 does not panic and does not return the error without
\* having made an attempt.
C20_BoundDoesNotOverflow ==
    client.retry = U32Max =>
        /\ client.pc # "panicked"
        /\ (client.pc = "done" /\ client.result = "Err") => client.handshakes > 0

-----------------------------------------------------------------------------
(* Claims about the dispatch order of a stream, under SpecConn              *)

\* stream s of a step: a message is passed to handle_message
Dispatches(s) == streams'[s].handled # streams[s].handled

\* C19: a stream dispatches its messages one at a time, in the order in
\* which their last chunks arrive.  A dispatch is the step that completes a
\* message: it passes that message and the handler is then inside
\* handle_message; while it is there nothing of the stream is read, its
\* buffer and its completed messages stay as they are and it can only
\* return to reading; meanwhile a sibling stream that is reading can read.
C19_OneDispatchAtATime ==
    /\ [](\A s \in DOMAIN streams : \A t \in DOMAIN streams \ {s} :
              (/\ streams[s].pc = "handle_message"
               /\ streams[t].pc = "read"
               /\ peer.written < peer.max_reads)
                  => ENABLED (\E w \in peer.inputs : StreamRead(t, w)))
    /\ [][\A s \in DOMAIN streams :
              /\ Dispatches(s) =>
                     /\ streams[s].pc = "read"
                     /\ streams'[s].pc = "handle_message"
                     /\ Len(streams'[s].completed) = Len(streams[s].completed) + 1
                     /\ streams'[s].handled =
                            Append(streams[s].handled,
                                   streams'[s].completed[Len(streams'[s].completed)][1])
              /\ streams[s].pc = "handle_message" =>
                     /\ streams'[s].chunks = streams[s].chunks
                     /\ streams'[s].completed = streams[s].completed
                     /\ streams'[s].handled = streams[s].handled
                     /\ streams'[s].pc \in {"handle_message", "read"}]_vars

\* a stream has passed two Requests to handle_message, message_id 2 before
\* message_id 1 as their chunks arrived, and is inside the second call
C19_Witness ==
    \E s \in DOMAIN streams :
        /\ streams[s].handled = <<2, 1>>
        /\ streams[s].pc = "handle_message"
====
